---- MODULE Spec2Model ----
(***************************************************************************)
(* Model of the single-threaded event loop of src/ae.go: the file-event    *)
(* registry kept in step with epoll, the head-inserted linked list of time *)
(* events, AeWait, AeProcessEvents and the AeMain driver.                   *)
(*                                                                         *)
(* Callbacks are code of the embedding program.  A callback is modelled as *)
(* the interval between its invocation and its return, during which it may *)
(* call any operation of the loop any number of times (reentrancy).  The   *)
(* owner of the loop may call the same operations while AeMain is not      *)
(* running.  The wall clock is the variable now; it advances by Tick       *)
(* between any two steps, which also stands for the time spent blocked in   *)
(* EpollWait and inside callbacks.                                          *)
(***************************************************************************)
EXTENDS Integers, Sequences, FiniteSets, TLC

\* ---------------------------------------------------------------- bounds
MaxFd == 1          \* descriptors are 0..MaxFd
MaxTimers == 2      \* AeCreateTimeEvent is called at most MaxTimers times
MaxTime == 2        \* the clock runs over 0..MaxTime
MaxDuration == 1    \* durations are 0..MaxDuration

FDs == 0..MaxFd
Durations == 0..MaxDuration

\* ------------------------------------------------------- program constants
AE_READABLE == 1
AE_WRITABLE == 2
AE_NORMAL == 1
AE_ONCE == 2
FeTypes == {AE_READABLE, AE_WRITABLE}
TeTypes == {AE_NORMAL, AE_ONCE}

\* unix.EPOLLIN, unix.EPOLLOUT (flags, kept symbolic) and the epoll_ctl ops
EPOLLIN == "EPOLLIN"
EPOLLOUT == "EPOLLOUT"
EpollFlags == {EPOLLIN, EPOLLOUT}
EPOLL_CTL_ADD == "ADD"
EPOLL_CTL_MOD == "MOD"
EPOLL_CTL_DEL == "DEL"

\* the callbacks and client data a caller may hand to AeCreateFileEvent
Handlers == {[fileProc |-> "procA", clientData |-> "dataA"],
             [fileProc |-> "procB", clientData |-> "dataB"]}

\* a nil *AeFileEvent (also what a Go map returns for a missing key)
FeNil == [fd |-> -1, mask |-> 0, fileProc |-> "nil", clientData |-> "nil"]
\* a nil *AeTimeEvent
TeNil == 0

VARIABLES
    FileEvents,       \* eventLoop.FileEvents: key -> *AeFileEvent
    epoll,            \* the kernel's interest list behind eventLoop.epollFd
    heap,             \* the allocated AeTimeEvent objects, by address 1..Len(heap)
    TimeEventHead,    \* eventLoop.TimeEventHead: an address or TeNil
    timeEventNextId,  \* eventLoop.timeEventNextId
    stop,             \* eventLoop.stop
    now,              \* the wall clock, GetMsTime()
    pc,               \* where the single thread is
    tes,              \* AeProcessEvents: the time events still to process
    fes,              \* AeProcessEvents: the file events still to process
    last,             \* history: the step just taken
    rearmed,          \* history: (fd, mask) registered since its last firing
    firedAt,          \* history: address -> clock at its last invocation, -1 if none
    timeout           \* history: the timeout last computed for EpollWait, 0 if none

vars == <<FileEvents, epoll, heap, TimeEventHead, timeEventNextId, stop, now,
          pc, tes, fes, last, rearmed, firedAt, timeout>>

\* ------------------------------------------------------------ pure helpers
getFeKey(fd, mask) == IF mask = AE_READABLE THEN fd ELSE fd * (-1)

getEpollEvent(mask) == IF mask = AE_READABLE THEN EPOLLIN ELSE EPOLLOUT

Keys == {getFeKey(fd, m) : fd \in FDs, m \in FeTypes}

\* epoll_ctl(2) on the interest list ep = [fds, ev].  fault is a failure the
\* environment imposes (EBADF, EPERM, ENOMEM); ADD of a known descriptor fails
\* with EEXIST, MOD and DEL of an unknown one with ENOENT.  MOD replaces the
\* event mask of the descriptor; DEL removes the descriptor whatever its mask.
EpollCtl(ep, op, fd, events, fault) ==
    IF fault THEN [err |-> TRUE, ep |-> ep]
    ELSE IF op = EPOLL_CTL_ADD
    THEN IF fd \in ep.fds THEN [err |-> TRUE, ep |-> ep]
         ELSE [err |-> FALSE,
               ep |-> [fds |-> ep.fds \cup {fd}, ev |-> [ep.ev EXCEPT ![fd] = events]]]
    ELSE IF op = EPOLL_CTL_MOD
    THEN IF fd \notin ep.fds THEN [err |-> TRUE, ep |-> ep]
         ELSE [err |-> FALSE, ep |-> [ep EXCEPT !.ev[fd] = events]]
    ELSE IF fd \notin ep.fds THEN [err |-> TRUE, ep |-> ep]
         ELSE [err |-> FALSE,
               ep |-> [fds |-> ep.fds \ {fd}, ev |-> [ep.ev EXCEPT ![fd] = {}]]]

\* ------------------------------------------------------------ file events
\* CreateFileEvent storing the callback before it looks at the error of EpollCtl
CreateFileEventInstallsFirst(FE, ep, fd, mask, proc, clientData, fault) ==
    LET op == IF FE[getFeKey(fd, AE_READABLE)] # FeNil
                 \/ FE[getFeKey(fd, AE_WRITABLE)] # FeNil
              THEN EPOLL_CTL_MOD ELSE EPOLL_CTL_ADD
        r == EpollCtl(ep, op, fd, {getEpollEvent(mask)}, fault)
        fe == [fd |-> fd, mask |-> mask, fileProc |-> proc, clientData |-> clientData]
    IN  [FileEvents |-> [FE EXCEPT ![getFeKey(fd, mask)] = fe],
         epoll |-> r.ep, err |-> r.err]

\* AeCreateFileEvent: the new [FileEvents, epoll, err]
CreateFileEvent(FE, ep, fd, mask, proc, clientData, fault) ==
    LET op == IF FE[getFeKey(fd, AE_READABLE)] # FeNil
                 \/ FE[getFeKey(fd, AE_WRITABLE)] # FeNil
              THEN EPOLL_CTL_MOD ELSE EPOLL_CTL_ADD
        r == EpollCtl(ep, op, fd, {getEpollEvent(mask)}, fault)
        fe == [fd |-> fd, mask |-> mask, fileProc |-> proc, clientData |-> clientData]
    IN  IF r.err
        THEN [FileEvents |-> FE, epoll |-> ep, err |-> TRUE]
        ELSE [FileEvents |-> [FE EXCEPT ![getFeKey(fd, mask)] = fe],
              epoll |-> r.ep, err |-> FALSE]

\* AeDeleteFileEvent: the new [FileEvents, epoll, err]
DeleteFileEvent(FE, ep, fd, mask, fault) ==
    LET r == EpollCtl(ep, EPOLL_CTL_DEL, fd, {getEpollEvent(mask)}, fault)
    IN  [FileEvents |-> [FE EXCEPT ![getFeKey(fd, mask)] = FeNil],
         epoll |-> r.ep, err |-> r.err]

\* ------------------------------------------------------------ the caller
\* the operations of the loop are called by the owner while AeMain is not
\* running, and by callbacks while they execute
Callers == {"idle", "te_cb", "fe_cb"}

\* history: the operation a step performed and whether it failed
Label(op, err) == [op |-> op, err |-> err]

Init ==
    /\ FileEvents = [k \in Keys |-> FeNil]
    /\ epoll = [fds |-> {}, ev |-> [fd \in FDs |-> {}]]
    /\ heap = <<>>
    /\ TimeEventHead = TeNil
    /\ timeEventNextId = 1
    /\ stop = FALSE
    /\ now = 0
    /\ pc = "idle"
    /\ tes = <<>>
    /\ fes = <<>>
    /\ last = Label("init", FALSE)
    /\ rearmed = {}
    /\ firedAt = <<>>
    /\ timeout = 0

AeCreateFileEvent(fd, mask, h, fault) ==
    /\ pc \in Callers
    /\ LET r == CreateFileEvent(FileEvents, epoll, fd, mask, h.fileProc, h.clientData, fault)
       IN  /\ FileEvents' = r.FileEvents
           /\ epoll' = r.epoll
           /\ last' = Label("AeCreateFileEvent", r.err)
           /\ rearmed' = IF r.err THEN rearmed ELSE rearmed \cup {<<fd, mask>>}
    /\ UNCHANGED timeout
    /\ UNCHANGED <<heap, TimeEventHead, timeEventNextId, stop, now, pc, tes, fes, firedAt>>

AeDeleteFileEvent(fd, mask, fault) ==
    /\ pc \in Callers
    /\ LET r == DeleteFileEvent(FileEvents, epoll, fd, mask, fault)
       IN  /\ FileEvents' = r.FileEvents
           /\ epoll' = r.epoll
           /\ last' = Label("AeDeleteFileEvent", r.err)
    /\ UNCHANGED timeout
    /\ UNCHANGED <<heap, TimeEventHead, timeEventNextId, stop, now, pc, tes, fes,
                   rearmed, firedAt>>

\* ------------------------------------------------------------ time events
\* the addresses reached from p by following next, at most n of them
RECURSIVE Walk(_, _, _)
Walk(h, p, n) ==
    IF p = TeNil \/ n = 0 THEN <<>> ELSE <<p>> \o Walk(h, h[p].next, n - 1)

\* the list hanging from eventLoop.TimeEventHead, head first
TimeList(h, head) == Walk(h, head, Len(h) + 1)

SeqRange(s) == {s[i] : i \in 1..Len(s)}

ActiveIds(h, head) == {h[a].id : a \in SeqRange(TimeList(h, head))}

\* CreateTimeEvent without timeEventNextId++
CreateTimeEventNoIncrement(h, head, nextId, mask, duration, clock) ==
    LET te == [id |-> nextId, mask |-> mask, when |-> clock + duration,
               duration |-> duration, next |-> head]
    IN  [heap |-> Append(h, te), head |-> Len(h) + 1, nextId |-> nextId,
         id |-> nextId]

\* AeCreateTimeEvent: the new [heap, head, nextId] and the id returned
CreateTimeEvent(h, head, nextId, mask, duration, clock) ==
    LET te == [id |-> nextId, mask |-> mask, when |-> clock + duration,
               duration |-> duration, next |-> head]
    IN  [heap |-> Append(h, te), head |-> Len(h) + 1, nextId |-> nextId + 1,
         id |-> nextId]

\* DeleteScan comparing te.id >= id instead of te.id == id
RECURSIVE DeleteScanGe(_, _, _, _, _, _)
DeleteScanGe(h, head, te, prev, id, n) ==
    IF te = TeNil \/ n = 0 THEN [heap |-> h, head |-> head]
    ELSE IF h[te].id >= id
    THEN LET h1 == IF prev = TeNil THEN h ELSE [h EXCEPT ![prev].next = h[te].next]
             head1 == IF prev = TeNil THEN h[te].next ELSE head
         IN  [heap |-> [h1 EXCEPT ![te].next = TeNil], head |-> head1]
    ELSE DeleteScanGe(h, head, h[te].next, te, id, n - 1)

\* DeleteScan ending the list at prev instead of linking prev to te.next
RECURSIVE DeleteScanDropsRest(_, _, _, _, _, _)
DeleteScanDropsRest(h, head, te, prev, id, n) ==
    IF te = TeNil \/ n = 0 THEN [heap |-> h, head |-> head]
    ELSE IF h[te].id = id
    THEN LET h1 == IF prev = TeNil THEN h ELSE [h EXCEPT ![prev].next = TeNil]
             head1 == IF prev = TeNil THEN h[te].next ELSE head
         IN  [heap |-> [h1 EXCEPT ![te].next = TeNil], head |-> head1]
    ELSE DeleteScanDropsRest(h, head, h[te].next, te, id, n - 1)

\* the scan of AeDeleteTimeEvent, at te with prev behind it
RECURSIVE DeleteScan(_, _, _, _, _, _)
DeleteScan(h, head, te, prev, id, n) ==
    IF te = TeNil \/ n = 0 THEN [heap |-> h, head |-> head]
    ELSE IF h[te].id = id
    THEN LET h1 == IF prev = TeNil THEN h ELSE [h EXCEPT ![prev].next = h[te].next]
             head1 == IF prev = TeNil THEN h[te].next ELSE head
         IN  [heap |-> [h1 EXCEPT ![te].next = TeNil], head |-> head1]
    ELSE DeleteScan(h, head, h[te].next, te, id, n - 1)

\* AeDeleteTimeEvent: the new [heap, head]
DeleteTimeEvent(h, head, id) == DeleteScan(h, head, head, TeNil, id, Len(h) + 1)

NearestCeilingMs == 1000
MinTimeoutMs == 10

RECURSIVE NearestScan(_, _, _)
NearestScan(h, l, nearest) ==
    IF l = <<>> THEN nearest
    ELSE NearestScan(h, Tail(l), IF h[Head(l)].when < nearest THEN h[Head(l)].when
                                 ELSE nearest)

\* nearestTime
nearestTime(h, head, clock) == NearestScan(h, TimeList(h, head), clock + NearestCeilingMs)

\* WaitTimeout clamping only a negative difference
WaitTimeoutNegativeOnly(h, head, clock, clock2) ==
    LET t == nearestTime(h, head, clock) - clock2
    IN  IF t < 0 THEN MinTimeoutMs ELSE t

\* the timeout AeWait hands to EpollWait: nearestTime reads the clock (clock),
\* then AeWait reads it again (clock2) for the subtraction
WaitTimeout(h, head, clock, clock2) ==
    LET t == nearestTime(h, head, clock) - clock2
    IN  IF t <= 0 THEN MinTimeoutMs ELSE t

\* ------------------------------------------------------------ AeWait
\* what EpollWait may report: distinct watched descriptors, in any order, each
\* with some of the flags it is watched for
EpollEvents(ep) ==
    {[Fd |-> fd, Events |-> E] : fd \in ep.fds, E \in (SUBSET EpollFlags) \ {{}}}

ReadyLists(ep) ==
    {s \in UNION {[1..n -> EpollEvents(ep)] : n \in 0..Cardinality(ep.fds)} :
        /\ \A i \in 1..Len(s) : s[i].Events \subseteq ep.ev[s[i].Fd]
        /\ \A i, j \in 1..Len(s) : i # j => s[i].Fd # s[j].Fd}

\* the file events AeWait collects from the reported events
RECURSIVE CollectFes(_, _)
CollectFes(FE, events) ==
    IF events = <<>> THEN <<>>
    ELSE LET e == Head(events)
             fe == IF EPOLLIN \in e.Events THEN FE[getFeKey(e.Fd, AE_READABLE)]
                   ELSE IF EPOLLOUT \in e.Events THEN FE[getFeKey(e.Fd, AE_WRITABLE)]
                   ELSE FeNil
         IN  (IF fe # FeNil THEN <<fe>> ELSE <<>>) \o CollectFes(FE, Tail(events))

\* CollectTes taking te.when <= now for due
CollectTesLe(h, head, clock) ==
    SelectSeq(TimeList(h, head), LAMBDA a : h[a].when <= clock)

\* the time events AeWait collects, in list order
CollectTes(h, head, clock) ==
    SelectSeq(TimeList(h, head), LAMBDA a : h[a].when < clock)

\* AeWait without the return after the error of EpollWait
AeWaitNoReturn(FE, h, head, clock, events, err) ==
    [tes |-> CollectTes(h, head, clock),
     fes |-> IF err THEN <<>> ELSE CollectFes(FE, events),
     err |-> err]

\* AeWait: what it returns
AeWait(FE, h, head, clock, events, err) ==
    IF err THEN [tes |-> <<>>, fes |-> <<>>, err |-> TRUE]
    ELSE [tes |-> CollectTes(h, head, clock), fes |-> CollectFes(FE, events),
          err |-> FALSE]

\* ------------------------------------------------------------ AeProcessEvents
\* AfterTimeProc rescheduling every time event, whatever its mask
AfterTimeProcAlwaysReschedules(h, head, te, clock) ==
    [heap |-> [h EXCEPT ![te].when = clock + h[te].duration], head |-> head]

\* AfterTimeProc rescheduling from the previous deadline, not from the clock
AfterTimeProcFromDeadline(h, head, te, clock) ==
    IF h[te].mask = AE_NORMAL
    THEN [heap |-> [h EXCEPT ![te].when = h[te].when + h[te].duration], head |-> head]
    ELSE DeleteTimeEvent(h, head, h[te].id)

\* AfterTimeProc putting a rescheduled time event back at the head of the list
\* when it is no longer on it
AfterTimeProcReinserts(h, head, te, clock) ==
    IF h[te].mask = AE_NORMAL
    THEN IF te \in SeqRange(TimeList(h, head))
         THEN [heap |-> [h EXCEPT ![te].when = clock + h[te].duration], head |-> head]
         ELSE [heap |-> [h EXCEPT ![te].when = clock + h[te].duration,
                                  ![te].next = head],
               head |-> te]
    ELSE DeleteTimeEvent(h, head, h[te].id)

\* after the callback of time event te has returned: the new [heap, head]
AfterTimeProc(h, head, te, clock) ==
    IF h[te].mask = AE_NORMAL
    THEN [heap |-> [h EXCEPT ![te].when = clock + h[te].duration], head |-> head]
    ELSE DeleteTimeEvent(h, head, h[te].id)

\* AfterFileProc without the call of AeDeleteFileEvent
AfterFileProcKeeps(FE, ep, fe, fault) == [FileEvents |-> FE, epoll |-> ep, err |-> FALSE]

\* after the callback of file event fe has returned: the new [FileEvents, epoll, err]
AfterFileProc(FE, ep, fe, fault) == DeleteFileEvent(FE, ep, fe.fd, fe.mask, fault)

\* ProcessDone for range loops that break once eventLoop.stop is set
ProcessDoneOrStopped(tes_, fes_, stopFlag) == stopFlag \/ (tes_ = <<>> /\ fes_ = <<>>)

\* both range loops of AeProcessEvents have run out
ProcessDone(tes_, fes_, stopFlag) == tes_ = <<>> /\ fes_ = <<>>

\* ------------------------------------------------------------ actions
AeCreateTimeEvent(mask, duration) ==
    /\ pc \in Callers
    /\ Len(heap) < MaxTimers
    /\ now + duration < MaxTime
    /\ LET r == CreateTimeEvent(heap, TimeEventHead, timeEventNextId, mask, duration, now)
       IN  /\ heap' = r.heap
           /\ TimeEventHead' = r.head
           /\ timeEventNextId' = r.nextId
           /\ last' = Label("AeCreateTimeEvent", FALSE)
    /\ firedAt' = Append(firedAt, -1)
    /\ UNCHANGED timeout
    /\ UNCHANGED <<FileEvents, epoll, stop, now, pc, tes, fes, rearmed>>

AeDeleteTimeEvent(id) ==
    /\ pc \in Callers
    /\ LET r == DeleteTimeEvent(heap, TimeEventHead, id)
       IN  /\ heap' = r.heap
           /\ TimeEventHead' = r.head
    /\ last' = Label("AeDeleteTimeEvent", id \notin ActiveIds(heap, TimeEventHead))
    /\ UNCHANGED timeout
    /\ UNCHANGED <<FileEvents, epoll, timeEventNextId, stop, now, pc, tes, fes,
                   rearmed, firedAt>>

\* a callback asks the loop to stop: eventLoop.stop = true
Stop ==
    /\ pc \in Callers
    /\ stop' = TRUE
    /\ last' = Label("Stop", FALSE)
    /\ UNCHANGED timeout
    /\ UNCHANGED <<FileEvents, epoll, heap, TimeEventHead, timeEventNextId, now, pc,
                   tes, fes, rearmed, firedAt>>

\* the clock advances
Tick ==
    /\ now < MaxTime
    /\ now' = now + 1
    /\ UNCHANGED timeout
    /\ UNCHANGED <<FileEvents, epoll, heap, TimeEventHead, timeEventNextId, stop, pc,
                   tes, fes, last, rearmed, firedAt>>

\* AeMain is called: eventLoop.stop = false
AeMainEnter ==
    /\ pc = "idle"
    /\ stop' = FALSE
    /\ pc' = "loop"
    /\ last' = Label("AeMain", FALSE)
    /\ UNCHANGED timeout
    /\ UNCHANGED <<FileEvents, epoll, heap, TimeEventHead, timeEventNextId, now,
                   tes, fes, rearmed, firedAt>>

\* the loop condition of AeMain
MainContinues(stopFlag) == stopFlag # TRUE

\* for eventLoop.stop != true fails: AeMain returns
AeMainReturn ==
    /\ pc = "loop"
    /\ ~MainContinues(stop)
    /\ pc' = "idle"
    /\ last' = Label("AeMainReturn", FALSE)
    /\ UNCHANGED timeout
    /\ UNCHANGED <<FileEvents, epoll, heap, TimeEventHead, timeEventNextId, stop, now,
                   tes, fes, rearmed, firedAt>>

\* one iteration of AeMain up to the call of AeProcessEvents
AeMainWait(events, err) ==
    /\ pc = "loop"
    /\ MainContinues(stop)
    /\ LET r == AeWait(FileEvents, heap, TimeEventHead, now, events, err)
       IN  /\ tes' = r.tes
           /\ fes' = r.fes
           /\ stop' = IF r.err THEN TRUE ELSE stop
           /\ last' = Label("AeWait", r.err)
    /\ pc' = "process"
    /\ UNCHANGED timeout
    /\ UNCHANGED <<FileEvents, epoll, heap, TimeEventHead, timeEventNextId, now,
                   rearmed, firedAt>>

\* AeProcessEvents calls te.timeProc for the next time event
TimeProcCall ==
    /\ pc = "process"
    /\ ~ProcessDone(tes, fes, stop)
    /\ tes # <<>>
    /\ pc' = "te_cb"
    /\ firedAt' = [firedAt EXCEPT ![Head(tes)] = now]
    /\ last' = Label("timeProc", FALSE)
    /\ UNCHANGED timeout
    /\ UNCHANGED <<FileEvents, epoll, heap, TimeEventHead, timeEventNextId, stop, now,
                   tes, fes, rearmed>>

\* te.timeProc returns; the time event is rescheduled or deleted
TimeProcReturn ==
    /\ pc = "te_cb"
    /\ LET te == Head(tes)
           r == AfterTimeProc(heap, TimeEventHead, te, now)
       IN  /\ heap' = r.heap
           /\ TimeEventHead' = r.head
           /\ last' = Label("timeProcReturn", FALSE)
    /\ tes' = Tail(tes)
    /\ pc' = "process"
    /\ UNCHANGED timeout
    /\ UNCHANGED <<FileEvents, epoll, timeEventNextId, stop, now, fes, rearmed, firedAt>>

\* FileProcCall with the range over fes not waiting for the range over tes
FileProcCallFirst ==
    /\ pc = "process"
    /\ ~ProcessDone(tes, fes, stop)
    /\ fes # <<>>
    /\ pc' = "fe_cb"
    /\ rearmed' = rearmed \ {<<Head(fes).fd, Head(fes).mask>>}
    /\ last' = Label("fileProc", FALSE)
    /\ UNCHANGED timeout
    /\ UNCHANGED <<FileEvents, epoll, heap, TimeEventHead, timeEventNextId, stop, now,
                   tes, fes, firedAt>>

\* AeProcessEvents calls fe.fileProc for the next file event
FileProcCall ==
    /\ pc = "process"
    /\ ~ProcessDone(tes, fes, stop)
    /\ tes = <<>>
    /\ fes # <<>>
    /\ pc' = "fe_cb"
    /\ rearmed' = rearmed \ {<<Head(fes).fd, Head(fes).mask>>}
    /\ last' = Label("fileProc", FALSE)
    /\ UNCHANGED timeout
    /\ UNCHANGED <<FileEvents, epoll, heap, TimeEventHead, timeEventNextId, stop, now,
                   tes, fes, firedAt>>

\* fe.fileProc returns; the registration is deleted
FileProcReturn(fault) ==
    /\ pc = "fe_cb"
    /\ LET fe == Head(fes)
           r == AfterFileProc(FileEvents, epoll, fe, fault)
       IN  /\ FileEvents' = r.FileEvents
           /\ epoll' = r.epoll
           /\ last' = Label("fileProcReturn", r.err)
    /\ fes' = Tail(fes)
    /\ pc' = "process"
    /\ UNCHANGED timeout
    /\ UNCHANGED <<heap, TimeEventHead, timeEventNextId, stop, now, tes, rearmed, firedAt>>

\* AeProcessEvents returns to AeMain
ProcessReturn ==
    /\ pc = "process"
    /\ ProcessDone(tes, fes, stop)
    /\ pc' = "loop"
    /\ last' = Label("AeProcessEventsReturn", FALSE)
    /\ UNCHANGED timeout
    /\ UNCHANGED <<FileEvents, epoll, heap, TimeEventHead, timeEventNextId, stop, now,
                   tes, fes, rearmed, firedAt>>

Driver ==
    \/ AeMainEnter
    \/ AeMainReturn
    \/ \E events \in ReadyLists(epoll), err \in BOOLEAN : AeMainWait(events, err)
    \/ ProcessReturn

FileApi ==
    \/ \E fd \in FDs, mask \in FeTypes, h \in Handlers, fault \in BOOLEAN :
          AeCreateFileEvent(fd, mask, h, fault)
    \/ \E fd \in FDs, mask \in FeTypes, fault \in BOOLEAN :
          AeDeleteFileEvent(fd, mask, fault)

FileDispatch ==
    \/ FileProcCall
    \/ \E fault \in BOOLEAN : FileProcReturn(fault)

TimeApi ==
    \/ \E mask \in TeTypes, duration \in Durations : AeCreateTimeEvent(mask, duration)
    \/ \E id \in 1..MaxTimers + 1 : AeDeleteTimeEvent(id)

TimeDispatch ==
    \/ TimeProcCall
    \/ TimeProcReturn

Next == Driver \/ Stop \/ Tick \/ FileApi \/ FileDispatch \/ TimeApi \/ TimeDispatch

Spec == Init /\ [][Next]_vars

\* the registry alone: the owner registers and unregisters, AeMain is not running
NextRegistry == FileApi

SpecRegistry == Init /\ [][NextRegistry]_vars

\* a loop that serves file events only
NextFile == Driver \/ FileApi \/ FileDispatch

SpecFile == Init /\ [][NextFile]_vars

\* a loop that serves time events only
NextTime == Driver \/ Stop \/ Tick \/ TimeApi \/ TimeDispatch

SpecTime == Init /\ [][NextTime]_vars

\* the loop keeps cycling and the clock keeps advancing: AeMain is running and
\* is not stopped, EpollWait reports no error, callbacks return
NextCycling ==
    \/ AeMainEnter
    \/ AeMainWait(<<>>, FALSE)
    \/ ProcessReturn
    \/ Tick
    \/ TimeApi
    \/ TimeDispatch

SpecCycling ==
    /\ Init
    /\ [][NextCycling]_vars
    /\ WF_vars(AeMainEnter)
    /\ WF_vars(AeMainWait(<<>>, FALSE))
    /\ WF_vars(ProcessReturn)
    /\ WF_vars(Tick)
    /\ WF_vars(TimeDispatch)

\* a loop that serves time events and file events together: EpollCtl and
\* EpollWait do not fail, every registration carries the same callback, and
\* nothing is unregistered except by AeProcessEvents
NextBatch ==
    \/ AeMainEnter
    \/ \E events \in ReadyLists(epoll) : AeMainWait(events, FALSE)
    \/ ProcessReturn
    \/ Tick
    \/ \E fd \in FDs, mask \in FeTypes :
          AeCreateFileEvent(fd, mask, [fileProc |-> "procA", clientData |-> "dataA"],
                            FALSE)
    \/ \E mask \in TeTypes, duration \in Durations : AeCreateTimeEvent(mask, duration)
    \/ TimeDispatch
    \/ FileProcCall
    \/ FileProcReturn(FALSE)

SpecBatch == Init /\ [][NextBatch]_vars

\* a loop that serves file events only, while no call of the kernel fails but
\* for what the loop itself asks wrongly (EEXIST, ENOENT); nothing sets
\* eventLoop.stop, so AeMain does not return
NextFileNoFault ==
    \/ AeMainEnter
    \/ \E events \in ReadyLists(epoll) : AeMainWait(events, FALSE)
    \/ ProcessReturn
    \/ \E fd \in FDs, mask \in FeTypes, h \in Handlers :
          AeCreateFileEvent(fd, mask, h, FALSE)
    \/ \E fd \in FDs, mask \in FeTypes : AeDeleteFileEvent(fd, mask, FALSE)
    \/ FileProcCall
    \/ FileProcReturn(FALSE)

SpecFileNoFault == Init /\ [][NextFileNoFault]_vars

\* ------------------------------------------- the timeout of AeWait alone
\* AeMain is about to call AeWait, with any list of up to MaxTimers time events
\* whose when lies before, at or after the clock, up to beyond the ceiling of
\* nearestTime
Clocks == {5000, 5001}
WhenOffsets == {-1001, -1, 0, 1, 9, 10, 11, 999, 1000, 1001}
\* by how much the clock advances between the read of nearestTime and the
\* read of AeWait
ReadGaps == {0, 1, 999, 1000, 1001}

\* the objects AeCreateTimeEvent has linked, whens[a] the when of the a-th
TimersOf(whens, clock) ==
    [a \in 1..Len(whens) |->
        [id |-> a, mask |-> AE_NORMAL, when |-> whens[a],
         duration |-> IF whens[a] > clock THEN whens[a] - clock ELSE 0,
         next |-> a - 1]]

InitTimeout ==
    /\ FileEvents = [k \in Keys |-> FeNil]
    /\ epoll = [fds |-> {}, ev |-> [fd \in FDs |-> {}]]
    /\ now \in Clocks
    /\ \E n \in 0..MaxTimers : \E offs \in [1..n -> WhenOffsets] :
          heap = TimersOf([a \in 1..n |-> now + offs[a]], now)
    /\ TimeEventHead = Len(heap)
    /\ timeEventNextId = Len(heap) + 1
    /\ stop = FALSE
    /\ pc = "loop"
    /\ tes = <<>>
    /\ fes = <<>>
    /\ last = Label("AeMain", FALSE)
    /\ rearmed = {}
    /\ firedAt = [a \in 1..Len(heap) |-> -1]
    /\ timeout = 0

\* the first statements of AeWait: the timeout for EpollWait, from the clock
\* read by nearestTime and the clock read gap later by AeWait
AeWaitTimeout(gap) ==
    /\ pc = "loop"
    /\ MainContinues(stop)
    /\ timeout = 0
    /\ timeout' = WaitTimeout(heap, TimeEventHead, now, now + gap)
    /\ now' = now + gap
    /\ last' = Label("WaitTimeout", FALSE)
    /\ UNCHANGED <<FileEvents, epoll, heap, TimeEventHead, timeEventNextId, stop, pc,
                   tes, fes, rearmed, firedAt>>

NextTimeout == \E gap \in ReadGaps : AeWaitTimeout(gap)

SpecTimeout == InitTimeout /\ [][NextTimeout]_vars

\* ------------------------------------------------- the list of time events
\* the owner has registered up to MaxTimers + 1 time events of duration 0 at
\* clock 0, so that the list has a head, a middle and a tail; then the loop
\* serves time events and the owner and the callbacks register and unregister
InitList ==
    /\ FileEvents = [k \in Keys |-> FeNil]
    /\ epoll = [fds |-> {}, ev |-> [fd \in FDs |-> {}]]
    /\ \E n \in 0..MaxTimers + 1 :
          \E ms \in [1..n -> TeTypes] :
             heap = [a \in 1..n |->
                       [id |-> a, mask |-> ms[a], when |-> 0, duration |-> 0,
                        next |-> a - 1]]
    /\ TimeEventHead = Len(heap)
    /\ timeEventNextId = Len(heap) + 1
    /\ stop = FALSE
    /\ now = 0
    /\ pc = "idle"
    /\ tes = <<>>
    /\ fes = <<>>
    /\ last = Label("init", FALSE)
    /\ rearmed = {}
    /\ firedAt = [a \in 1..Len(heap) |-> -1]
    /\ timeout = 0

NextList ==
    \/ AeMainEnter
    \/ AeMainWait(<<>>, FALSE)
    \/ ProcessReturn
    \/ Tick
    \/ TimeApi
    \/ TimeDispatch

SpecList == InitList /\ [][NextList]_vars

\* ==================================================================== claims
Other(mask) == IF mask = AE_READABLE THEN AE_WRITABLE ELSE AE_READABLE

\* C1: when (fd, Other(mask)) is registered, a successful registration of
\* (fd, mask) leaves two distinct entries, and unregistering (fd, mask) leaves
\* the entry of the other direction as it was; for every descriptor, 0 included
C1_DirectionsIndependent ==
    [][\A fd \in FDs, mask \in FeTypes :
          LET ko == getFeKey(fd, Other(mask))
          IN  FileEvents[ko].mask = Other(mask) =>
                /\ \A h \in Handlers, fault \in BOOLEAN :
                      (AeCreateFileEvent(fd, mask, h, fault) /\ ~last'.err) =>
                         /\ FileEvents'[ko] = FileEvents[ko]
                         /\ FileEvents'[getFeKey(fd, mask)].mask = mask
                /\ \A fault \in BOOLEAN :
                      AeDeleteFileEvent(fd, mask, fault) =>
                         FileEvents'[ko] = FileEvents[ko]]_vars

\* C2: AeWait collects each registration at most once and only while it is in
\* FileEvents; a file-event callback is invoked only for a (fd, mask)
\* registered since its last invocation; and when the callback has returned
\* the registration of (fd, mask) is absent from FileEvents
C2_FiresOncePerRegistration ==
    [][/\ \A events \in ReadyLists(epoll), err \in BOOLEAN :
             AeMainWait(events, err) =>
                /\ \A i \in 1..Len(fes') :
                      FileEvents[getFeKey(fes'[i].fd, fes'[i].mask)] = fes'[i]
                /\ \A i, j \in 1..Len(fes') :
                      i # j => <<fes'[i].fd, fes'[i].mask>> # <<fes'[j].fd, fes'[j].mask>>
       /\ FileProcCall => <<Head(fes).fd, Head(fes).mask>> \in rearmed
       /\ \A fault \in BOOLEAN :
             FileProcReturn(fault) =>
                FileEvents'[getFeKey(Head(fes).fd, Head(fes).mask)] = FeNil]_vars

\* C2 witness: a callback has fired and returned, its registration is gone and
\* not renewed, and epoll still watches the descriptor (it can be reported again)
C2_Witness ==
    /\ last.op = "fileProcReturn"
    /\ \E fd \in epoll.fds, mask \in FeTypes :
          /\ FileEvents[getFeKey(fd, mask)] = FeNil
          /\ <<fd, mask>> \notin rearmed
          /\ getEpollEvent(mask) \in epoll.ev[fd]

OnListOf(h, head, a) == a \in SeqRange(TimeList(h, head))

OnList(a) == OnListOf(heap, TimeEventHead, a)

OneShotPending(a) ==
    IF a <= Len(heap) THEN OnList(a) /\ heap[a].mask = AE_ONCE ELSE FALSE

FiredOrUnregistered(a) ==
    IF a <= Len(heap) THEN firedAt[a] # -1 \/ ~OnList(a) ELSE FALSE

\* C3: a AE_ONCE time event keeps its deadline when = (clock at registration)
\* + duration; its callback is invoked at most once, at a clock >= when; when
\* the callback has returned it is off the list; and while the loop keeps
\* cycling and the clock advancing, a AE_ONCE time event on the list is
\* eventually invoked unless it is unregistered first
C3_OneShotExactlyOnce ==
    /\ [][/\ \A mask \in TeTypes, duration \in Durations :
                AeCreateTimeEvent(mask, duration) =>
                   /\ heap'[Len(heap')].when = now + duration
                   /\ OnListOf(heap', TimeEventHead', Len(heap'))
          /\ \A a \in 1..Len(heap) :
                heap[a].mask = AE_ONCE =>
                   heap'[a].when = heap[a].when /\ heap'[a].mask = AE_ONCE
          /\ (TimeProcCall /\ heap[Head(tes)].mask = AE_ONCE) =>
                firedAt[Head(tes)] = -1 /\ now >= heap[Head(tes)].when
          /\ (TimeProcReturn /\ heap[Head(tes)].mask = AE_ONCE) =>
                /\ ~OnListOf(heap', TimeEventHead', Head(tes))
                /\ heap[Head(tes)].id \notin ActiveIds(heap', TimeEventHead')]_vars
    /\ \A a \in 1..MaxTimers :
          [](OneShotPending(a) => <>FiredOrUnregistered(a))

\* C3 witness: a AE_ONCE time event has fired, at or after its deadline, its
\* callback has returned and it is off the list
C3_Witness ==
    /\ last.op = "timeProcReturn"
    /\ \E a \in 1..Len(heap) :
          /\ heap[a].mask = AE_ONCE
          /\ firedAt[a] >= heap[a].when
          /\ ~OnList(a)
          /\ tes = <<>>

NoDuplicates(s) == \A i, j \in 1..Len(s) : i # j => s[i] # s[j]

\* C4: when the callback of a AE_NORMAL time event has returned, its deadline
\* is the clock read then plus its duration; a AE_NORMAL time event keeps its
\* id, mask and duration and leaves the list only by AeDeleteTimeEvent of its
\* id; two consecutive invocations are more than duration apart; and AeWait
\* collects a time event at most once
C4_RecurringReschedule ==
    [][/\ (TimeProcReturn /\ heap[Head(tes)].mask = AE_NORMAL) =>
             heap'[Head(tes)].when = now + heap[Head(tes)].duration
       /\ \A a \in 1..Len(heap) :
             heap[a].mask = AE_NORMAL =>
                /\ heap'[a].id = heap[a].id
                /\ heap'[a].mask = heap[a].mask
                /\ heap'[a].duration = heap[a].duration
                /\ (OnList(a) /\ ~OnListOf(heap', TimeEventHead', a)) =>
                      AeDeleteTimeEvent(heap[a].id)
       /\ (TimeProcCall /\ heap[Head(tes)].mask = AE_NORMAL
              /\ firedAt[Head(tes)] # -1) =>
             now - firedAt[Head(tes)] > heap[Head(tes)].duration
       /\ \A events \in ReadyLists(epoll) :
             AeMainWait(events, FALSE) => NoDuplicates(tes')]_vars

\* C4 witness: a AE_NORMAL time event has fired, the clock advanced while its
\* callback ran, and on return it is on the list with deadline now + duration
C4_Witness ==
    /\ last.op = "timeProcReturn"
    /\ \E a \in 1..Len(heap) :
          /\ heap[a].mask = AE_NORMAL
          /\ OnList(a)
          /\ firedAt[a] # -1
          /\ firedAt[a] < now
          /\ heap[a].when = now + heap[a].duration

\* C5: AeDeleteTimeEvent of an id that is not on the list changes nothing: the
\* time events, their links and fields, the list head, the next id, the file
\* events, epoll and the stop flag are as before
C5_DeleteAbsentTimerNoop ==
    [][\A id \in 1..MaxTimers + 1 :
          (AeDeleteTimeEvent(id) /\ id \notin ActiveIds(heap, TimeEventHead)) =>
             UNCHANGED <<heap, TimeEventHead, timeEventNextId, FileEvents, epoll,
                         stop>>]_vars

\* C5 witness: AeDeleteTimeEvent has been called with an id not on the list,
\* while a time event is on the list and another one has left it
C5_Witness ==
    /\ last.op = "AeDeleteTimeEvent"
    /\ last.err
    /\ TimeEventHead # TeNil
    /\ \E a \in 1..Len(heap) : ~OnList(a)

\* C6: AeDeleteFileEvent of a (fd, mask) that has no registration changes
\* neither FileEvents nor the interest list of epoll nor the time events
C6_DeleteAbsentFileNoop ==
    [][\A fd \in FDs, mask \in FeTypes, fault \in BOOLEAN :
          (AeDeleteFileEvent(fd, mask, fault)
              /\ FileEvents[getFeKey(fd, mask)].mask # mask) =>
             UNCHANGED <<FileEvents, epoll, heap, TimeEventHead>>]_vars

\* C7: when EpollWait reports an error, AeWait returns no time event and no
\* file event and changes no registration and no time event, AeMain sets the
\* stop flag, the call of AeProcessEvents invokes no callback, and at the top
\* of the loop AeMain returns without waiting again
C7_WaitErrorEndsLoop ==
    [][/\ \A events \in ReadyLists(epoll) :
             AeMainWait(events, TRUE) =>
                /\ tes' = <<>> /\ fes' = <<>> /\ stop'
                /\ UNCHANGED <<FileEvents, epoll, heap, TimeEventHead, timeEventNextId>>
       /\ (last.op = "AeWait" /\ last.err) =>
             \/ Tick
             \/ ProcessReturn /\ pc' = "loop" /\ stop'
       /\ (pc = "loop" /\ stop) =>
             \/ Tick
             \/ AeMainReturn /\ pc' = "idle"]_vars

\* C7 witness: EpollWait has reported an error while a time event was due, and
\* nothing was collected
C7_Witness ==
    /\ last.op = "AeWait"
    /\ last.err
    /\ tes = <<>>
    /\ stop
    /\ \E a \in 1..Len(heap) : OnList(a) /\ heap[a].when < now

\* C8: AeProcessEvents returns only when every collected event has been
\* invoked, whether or not the stop flag was set meanwhile; at the top of the
\* loop a set flag makes AeMain return without waiting, and a clear flag makes
\* it wait again; AeMain clears the flag on entry
C8_StopIsCooperative ==
    [][/\ (pc = "process" /\ (tes # <<>> \/ fes # <<>>)) =>
             Tick \/ TimeProcCall \/ FileProcCall
       /\ ProcessReturn => (tes = <<>> /\ fes = <<>> /\ pc' = "loop")
       /\ (pc = "loop" /\ stop) =>
             \/ Tick
             \/ AeMainReturn /\ pc' = "idle"
       /\ (pc = "loop" /\ ~stop) =>
             \/ Tick
             \/ \E events \in ReadyLists(epoll), err \in BOOLEAN :
                   AeMainWait(events, err)
       /\ AeMainEnter => ~stop']_vars

\* C8 witness: the stop flag was set by a callback and a later callback of the
\* same batch has been invoked all the same
C8_Witness ==
    /\ last.op = "timeProc"
    /\ pc = "te_cb"
    /\ stop

\* C9: the ids given out are 1, 2, 3, ... in the order of the calls, the next
\* id is larger than every id given out, and no two time events on the list
\* have the same id
C9_IdsIncreasingUnique ==
    /\ \A a \in 1..Len(heap) : heap[a].id >= 1 /\ heap[a].id < timeEventNextId
    /\ Len(heap) >= 1 => heap[1].id = 1
    /\ \A a, b \in 1..Len(heap) : a < b => heap[a].id < heap[b].id
    /\ LET l == TimeList(heap, TimeEventHead)
       IN  \A i, j \in 1..Len(l) : i # j => heap[l[i]].id # heap[l[j]].id

\* C9 witness: a time event has been registered after an earlier one left the
\* list
C9_Witness ==
    /\ last.op = "AeCreateTimeEvent"
    /\ OnList(Len(heap))
    /\ \E a \in 1..Len(heap) : ~OnList(a)

\* C10: when EpollCtl fails in AeCreateFileEvent, FileEvents is as before
C10_FailedCreateKeepsRegistry ==
    [][\A fd \in FDs, mask \in FeTypes, h \in Handlers, fault \in BOOLEAN :
          (AeCreateFileEvent(fd, mask, h, fault) /\ last'.err) =>
             FileEvents' = FileEvents]_vars

\* C10 witness: AeCreateFileEvent has failed on a descriptor that has a
\* registration
C10_Witness ==
    /\ last.op = "AeCreateFileEvent"
    /\ last.err
    /\ \E k \in Keys : FileEvents[k] # FeNil

\* C11: FileEvents holds one entry per key, filed under the key of its own
\* (fd, mask); a successful AeCreateFileEvent leaves its callback and client
\* data as the entry of (fd, mask), whatever was there; and when a file-event
\* callback is invoked while (fd, mask) is registered, the callback and client
\* data invoked are those of the entry now in FileEvents
C11_LastRegistrationWins ==
    [][/\ \A k \in Keys :
             FileEvents[k] # FeNil =>
                getFeKey(FileEvents[k].fd, FileEvents[k].mask) = k
       /\ \A fd \in FDs, mask \in FeTypes, h \in Handlers, fault \in BOOLEAN :
             (AeCreateFileEvent(fd, mask, h, fault) /\ ~last'.err) =>
                FileEvents'[getFeKey(fd, mask)] =
                   [fd |-> fd, mask |-> mask, fileProc |-> h.fileProc,
                    clientData |-> h.clientData]
       /\ FileProcCall =>
             LET fe == Head(fes)
                 cur == FileEvents[getFeKey(fe.fd, fe.mask)]
             IN  cur.mask = fe.mask => cur = fe]_vars

\* C12: the time events AeWait collects are exactly those on the list whose
\* when is strictly less than the clock read after EpollWait, each once; a
\* time-event callback is invoked only when its when is less than the clock;
\* and when it returns, every other time event has its when, its place on the
\* list and its fields as before
C12_DueIsStrictlyPast ==
    [][/\ \A events \in ReadyLists(epoll) :
             AeMainWait(events, FALSE) =>
                /\ SeqRange(tes') =
                      {a \in 1..Len(heap) : OnList(a) /\ heap[a].when < now}
                /\ NoDuplicates(tes')
       /\ TimeProcCall => heap[Head(tes)].when < now
       /\ TimeProcReturn =>
             \A a \in 1..Len(heap) :
                a # Head(tes) =>
                   /\ heap'[a].when = heap[a].when
                   /\ heap'[a].id = heap[a].id
                   /\ OnListOf(heap', TimeEventHead', a) = OnList(a)]_vars

\* C12 witness: of two time events the one with the shorter duration has been
\* invoked and has returned, the batch is over, and the one with the longer
\* duration, whose when was not less than the clock, is on the list, never
\* invoked, with when = (clock at registration) + duration
C12_Witness ==
    /\ last.op = "timeProcReturn"
    /\ tes = <<>>
    /\ \E a, b \in 1..Len(heap) :
          /\ heap[a].duration < heap[b].duration
          /\ firedAt[a] # -1
          /\ firedAt[b] = -1
          /\ OnList(b)
          /\ heap[b].when = heap[b].duration
          /\ heap[b].when >= now

\* C13: in AeProcessEvents no file-event callback is invoked while a collected
\* time event is still to be processed; until then the collected file events
\* stay as AeWait left them; and a collected time event leaves the batch only
\* when its own callback, which was invoked, returns
C13_TimersBeforeFiles ==
    [][/\ FileProcCall => tes = <<>>
       /\ tes # <<>> => (fes' = fes /\ pc' # "fe_cb")
       /\ tes' # tes =>
             \/ \E events \in ReadyLists(epoll) : AeMainWait(events, FALSE)
             \/ TimeProcReturn /\ tes' = Tail(tes) /\ firedAt[Head(tes)] # -1]_vars

\* C13 witness: AeWait collected two time events and two file events, and the
\* callback of the first time event is running while the file events wait
C13_Witness ==
    /\ last.op = "timeProc"
    /\ pc = "te_cb"
    /\ Len(tes) = 2
    /\ Len(fes) = 2

\* C14: a time-event callback is invoked only for a time event that is on the
\* list, and a file-event callback only for a (fd, mask) that has its entry in
\* FileEvents: an event unregistered before its turn, be it by a callback
\* earlier in the same batch, is not invoked
C14_UnregisteredNeverFires ==
    [][/\ TimeProcCall => OnList(Head(tes))
       /\ FileProcCall =>
             FileEvents[getFeKey(Head(fes).fd, Head(fes).mask)].mask = Head(fes).mask]_vars

\* C15: when the callback invoked for (fd, mask) has registered (fd, mask)
\* again while it ran and that entry is in FileEvents as it returns, then
\* after AeProcessEvents has finished with the event the entry is still in
\* FileEvents and epoll watches fd for the direction of mask
C15_ReregisterInCallbackSticks ==
    [][\A fault \in BOOLEAN :
          LET fe == Head(fes)
              k == getFeKey(fe.fd, fe.mask)
          IN  (/\ FileProcReturn(fault)
               /\ <<fe.fd, fe.mask>> \in rearmed
               /\ FileEvents[k].mask = fe.mask) =>
                 /\ FileEvents'[k] = FileEvents[k]
                 /\ fe.fd \in epoll'.fds
                 /\ getEpollEvent(fe.mask) \in epoll'.ev[fe.fd]]_vars

\* C16: after a successful AeCreateFileEvent(fd, mask) on a descriptor that
\* has an entry for the other direction, epoll watches fd for EPOLLIN and
\* EPOLLOUT; on a descriptor with no entry, fd is added to epoll and watched
\* for the direction of mask only
C16_ModifyAddsDirection ==
    [][\A fd \in FDs, mask \in FeTypes, h \in Handlers, fault \in BOOLEAN :
          (AeCreateFileEvent(fd, mask, h, fault) /\ ~last'.err) =>
             /\ FileEvents[getFeKey(fd, Other(mask))].mask = Other(mask) =>
                   /\ fd \in epoll'.fds
                   /\ epoll'.ev[fd] = {EPOLLIN, EPOLLOUT}
             /\ (/\ FileEvents[getFeKey(fd, AE_READABLE)] = FeNil
                 /\ FileEvents[getFeKey(fd, AE_WRITABLE)] = FeNil) =>
                   /\ fd \notin epoll.fds
                   /\ fd \in epoll'.fds
                   /\ epoll'.ev[fd] = {getEpollEvent(mask)}]_vars

SmallestOf(S) == CHOOSE x \in S : \A y \in S : x <= y

WhensOnList == {heap[a].when : a \in SeqRange(TimeList(heap, TimeEventHead))}

\* the timeout as the claim computes it, from one reading of the clock
ClaimedTimeout(clock) ==
    LET d == SmallestOf({clock + 1000} \cup WhensOnList) - clock
    IN  IF d > 0 THEN d ELSE 10

\* C17 as stated: the timeout is in 1..1000 and is
\* min(now + 1000, smallest when) - now if that is positive and 10 otherwise,
\* now being the clock of the wait step (either of the readings AeWait makes)
C17_TimeoutOfOneClock ==
    [][\A gap \in ReadGaps :
          AeWaitTimeout(gap) =>
             /\ timeout' \in 1..1000
             /\ \/ timeout' = ClaimedTimeout(now)
                \/ timeout' = ClaimedTimeout(now')]_vars

\* C17 amended: the timeout is in 1..1000 while the clock does not go back
\* between the two readings; it is min(t1 + 1000, smallest when) - t2 if that
\* is positive and 10 otherwise, t1 the clock nearestTime read and t2 the clock
\* AeWait read after it; it is what the claim says when t1 = t2; and with no
\* time event it is 1000 - (t2 - t1) if that is positive and 10 otherwise
C17_TimeoutOfTwoClocks ==
    [][\A gap \in ReadGaps :
          AeWaitTimeout(gap) =>
             LET d == SmallestOf({now + 1000} \cup WhensOnList) - now'
             IN  /\ timeout' \in 1..1000
                 /\ timeout' = IF d > 0 THEN d ELSE 10
                 /\ now' = now => timeout' = ClaimedTimeout(now)
                 /\ TimeEventHead = TeNil =>
                       timeout' = IF gap < 1000 THEN 1000 - gap ELSE 10]_vars

\* C17 witness: the timeout was computed for a list whose smallest when is the
\* clock AeWait read, a difference of zero, and it is the floor of 10
C17_Witness ==
    /\ last.op = "WaitTimeout"
    /\ WhensOnList # {}
    /\ SmallestOf(WhensOnList \cup {now}) = now
    /\ now \in WhensOnList
    /\ timeout = 10

\* C18: AeDeleteTimeEvent called by the running callback with its own id takes
\* that time event off the list and leaves every other one where it was; when
\* the callback of a AE_NORMAL time event that is off the list returns, only
\* the when of that object changes: the list and every other object are as
\* before and the object is not back on the list nor in the batch; and a time
\* event that is off the list and not in the batch stays so, hence is never
\* collected and never invoked again
C18_SelfCancelSticks ==
    [][/\ (pc = "te_cb" /\ AeDeleteTimeEvent(heap[Head(tes)].id)) =>
             /\ ~OnListOf(heap', TimeEventHead', Head(tes))
             /\ \A b \in 1..Len(heap) :
                   b # Head(tes) => OnListOf(heap', TimeEventHead', b) = OnList(b)
       /\ (TimeProcReturn /\ heap[Head(tes)].mask = AE_NORMAL /\ ~OnList(Head(tes))) =>
             /\ TimeList(heap', TimeEventHead') = TimeList(heap, TimeEventHead)
             /\ \A b \in 1..Len(heap) : b # Head(tes) => heap'[b] = heap[b]
             /\ heap'[Head(tes)].next = TeNil
             /\ ~OnListOf(heap', TimeEventHead', Head(tes))
             /\ Head(tes) \notin SeqRange(tes')
       /\ \A a \in 1..Len(heap) :
             (~OnList(a) /\ a \notin SeqRange(tes)) =>
                /\ ~OnListOf(heap', TimeEventHead', a)
                /\ a \notin SeqRange(tes')
       /\ TimeProcCall => Head(tes) \in SeqRange(tes)]_vars

\* C18 witness: the callback of a AE_NORMAL time event has returned, the time
\* event is off the list although only its own callback ran in the batch, and
\* the other time event, never invoked, is still on the list
C18_Witness ==
    /\ last.op = "timeProcReturn"
    /\ tes = <<>>
    /\ \E a, b \in 1..Len(heap) :
          /\ heap[a].mask = AE_NORMAL
          /\ firedAt[a] # -1
          /\ ~OnList(a)
          /\ heap[a].when = now + heap[a].duration
          /\ firedAt[b] = -1
          /\ OnList(b)
          /\ TimeList(heap, TimeEventHead) = <<b>>

\* the directions of fd that have their entry in FileEvents
Registered(FE, fd) == {m \in FeTypes : FE[getFeKey(fd, m)].mask = m}

\* C19: while no call of the kernel fails for a reason outside the loop, after
\* every step a descriptor is in the interest list of epoll exactly when
\* FileEvents has an entry for it, and it is watched for the direction of each
\* of its entries; and no AeCreateFileEvent fails, that is, none asks
\* EPOLL_CTL_MOD for a descriptor epoll does not know nor EPOLL_CTL_ADD for
\* one it knows
C19_RegistryMatchesEpoll ==
    [][/\ \A fd \in FDs :
             /\ fd \in epoll'.fds <=> Registered(FileEvents', fd) # {}
             /\ \A m \in Registered(FileEvents', fd) :
                   getEpollEvent(m) \in epoll'.ev[fd]
       /\ \A fd \in FDs, mask \in FeTypes, h \in Handlers :
             AeCreateFileEvent(fd, mask, h, FALSE) => ~last'.err]_vars

\* the list from head ends at a nil next and passes no object twice
WellFormedList(h, head) ==
    LET l == TimeList(h, head)
    IN  /\ NoDuplicates(l)
        /\ Len(l) <= Len(h)
        /\ l # <<>> => h[l[Len(l)]].next = TeNil
        /\ Cardinality(ActiveIds(h, head)) = Len(l)

\* C20: the list from TimeEventHead is always finite, acyclic and without two
\* objects of one id, and its ids change as a set of ids would:
\* AeCreateTimeEvent adds the new id, which was not on it; AeDeleteTimeEvent(id)
\* removes id and nothing else, wherever id stands and also when it is absent;
\* the return of a AE_ONCE callback removes that id and nothing else, the
\* return of a AE_NORMAL callback removes nothing; no other step changes the
\* ids; and an object on the list keeps its id
C20_ListIsSetOfIds ==
    [][LET ids == ActiveIds(heap, TimeEventHead)
           idsNext == ActiveIds(heap', TimeEventHead')
       IN  /\ WellFormedList(heap, TimeEventHead)
           /\ WellFormedList(heap', TimeEventHead')
           /\ \A mask \in TeTypes, duration \in Durations :
                 AeCreateTimeEvent(mask, duration) =>
                    /\ timeEventNextId \notin ids
                    /\ idsNext = ids \cup {timeEventNextId}
           /\ \A id \in 1..MaxTimers + 1 :
                 AeDeleteTimeEvent(id) => idsNext = ids \ {id}
           /\ TimeProcReturn =>
                 idsNext = IF heap[Head(tes)].mask = AE_ONCE
                           THEN ids \ {heap[Head(tes)].id}
                           ELSE ids
           /\ idsNext # ids =>
                 \/ \E mask \in TeTypes, duration \in Durations :
                       AeCreateTimeEvent(mask, duration)
                 \/ \E id \in 1..MaxTimers + 1 : AeDeleteTimeEvent(id)
                 \/ TimeProcReturn
           /\ \A a \in 1..Len(heap) : heap'[a].id = heap[a].id]_vars

\* C20 witness: a callback has unregistered the time event in the middle of a
\* list of three, and the head and the tail are the list
C20_Witness ==
    /\ last.op = "AeDeleteTimeEvent"
    /\ ~last.err
    /\ pc = "te_cb"
    /\ Len(heap) >= 3
    /\ TimeList(heap, TimeEventHead) = <<3, 1>>
    /\ heap[2].next = TeNil

====
